---- MODULE Spec2Model ----
(***************************************************************************)
(* A model of app.py, the Instagram comment viewer: the loader with its    *)
(* memoization, the required-column check, the table renderer, the         *)
(* username exporter and the script main() that Streamlit re-runs on each  *)
(* interaction.                                                            *)
(*                                                                         *)
(* Text that the program builds (usernames, URLs, the export payload) is a *)
(* sequence of one-character strings, so that concatenation, joining and   *)
(* splitting into lines are computed.  Column names and message texts,     *)
(* which the program only compares or passes on, are TLA+ strings.         *)
(***************************************************************************)
EXTENDS Naturals, Sequences, FiniteSets, TLC

VARIABLES
    pc,             \* position of the running script (or of the direct call)
    uploaded_file,  \* what st.file_uploader returns: None or the file
    df,             \* main's df: None or the loaded table
    cache,          \* the st.cache_data store of load_data: key -> entry
    parse_calls,    \* instrumentation: pd.read_excel invocations per file
    output,         \* the elements the pass has emitted, in order
    steps,          \* instrumentation: the functions the pass has invoked
    result          \* the value returned by the last function invoked

vars == <<pc, uploaded_file, df, cache, parse_calls, output, steps, result>>

-----------------------------------------------------------------------------
(* Bounds *)

\* Rows of an input table.
MaxRows == 3

\* Cap on the instrumentation counter parse_calls.
MaxParse == 2

-----------------------------------------------------------------------------
(* Values *)

None == <<>>
Some(v) == <<v>>

\* A cell of a table: a missing value (None / NaN) or a text.
NaN == [isna |-> TRUE, val |-> <<>>]
Str(s) == [isna |-> FALSE, val |-> s]

alice == <<"a", "l", "i", "c", "e">>
bob == <<"b", "o", "b">>
empty == <<>>
NL == "\n"

\* The texts a cell of the user/username column is drawn from.
Texts == {empty, alice, bob}
Cells == {NaN} \cup {Str(s) : s \in Texts}

RECURSIVE SeqsUpTo(_, _)
SeqsUpTo(S, n) ==
    IF n = 0 THEN {<<>>}
    ELSE LET shorter == SeqsUpTo(S, n - 1)
         IN  shorter \cup {Append(s, x) : s \in {t \in shorter : Len(t) = n - 1}, x \in S}

-----------------------------------------------------------------------------
(* Constant data of the program *)

\* The required list without the column the exporter reads.
get_required_columns_no_username ==
    << "text",
       "comment_like_count",
       "user/is_verified",
       "created_at",
       "user_profile_url" >>

get_required_columns ==
    << "user/username",
       "text",
       "comment_like_count",
       "user/is_verified",
       "created_at",
       "user_profile_url" >>

get_column_order ==
    << "user_profile_url",
       "user/username",
       "user/is_verified",
       "comment_like_count",
       "text",
       "created_at" >>

get_column_config ==
    [ c \in { "user/profile_pic_url", "user_profile_url", "user/username",
              "user/is_verified", "comment_like_count", "text", "created_at" } |->
        CASE c = "user/profile_pic_url" -> [type |-> "link", label |-> "Foto de perfil"]
          [] c = "user_profile_url"     -> [type |-> "link", label |-> "Perfil do usuario"]
          [] c = "user/username"        -> [type |-> "text", label |-> "Usuario"]
          [] c = "user/is_verified"     -> [type |-> "checkbox", label |-> "Verificado"]
          [] c = "comment_like_count"   -> [type |-> "number", label |-> "Curtidas"]
          [] c = "text"                 -> [type |-> "text", label |-> "Comentario"]
          [] c = "created_at"           -> [type |-> "date", label |-> "Data do comentario"] ]

\* "https://www.instagram.com/"
BaseUrl ==
    << "h", "t", "t", "p", "s", ":", "/", "/", "w", "w", "w", ".", "i", "n", "s",
       "t", "a", "g", "r", "a", "m", ".", "c", "o", "m", "/" >>

-----------------------------------------------------------------------------
(* The DataFrame operations the program uses.  A table is a sequence of     *)
(* columns [name, values], the names distinct, the values row-aligned.      *)

\* df.columns
Columns(t) == {t[i].name : i \in DOMAIN t}

\* df[name], for a name among df.columns
GetColumn(t, name) == t[CHOOSE i \in DOMAIN t : t[i].name = name].values

\* df[names], for names all among df.columns (pandas raises KeyError otherwise)
Project(t, names) ==
    [i \in DOMAIN names |-> [name |-> names[i], values |-> GetColumn(t, names[i])]]

\* dropna forgotten: every value is kept.
dropna_keep_all(values) == values

\* Series.dropna(): the values that are not missing, in order
dropna(values) == SelectSeq(values, LAMBDA v : ~v.isna)

\* "\n".join(strs)
RECURSIVE join(_)
join(strs) ==
    IF strs = <<>> THEN <<>>
    ELSE IF Len(strs) = 1 THEN strs[1]
    ELSE strs[1] \o <<NL>> \o join(Tail(strs))

-----------------------------------------------------------------------------
(* The elements a pass emits *)

FileUploader == [kind |-> "file_uploader", label |-> "Escolha um arquivo XLSX"]
Header == [kind |-> "header", label |-> "Dados do Instagram"]
LoadError == [kind |-> "error", label |-> "Erro ao carregar arquivo"]
MissingError(missing) ==
    [kind |-> "error", label |-> "As seguintes colunas estao faltando no arquivo",
     missing |-> missing]
NotFoundError ==
    [kind |-> "error", label |-> "A coluna 'user/username' nao foi encontrada no arquivo XLSX."]

\* st.dataframe(data, column_order, column_config): the columns of column_order
\* that data has, in that order, each with its configuration.
Dataframe(data, column_order, column_config) ==
    LET shown == SelectSeq(column_order, LAMBDA c : c \in Columns(data))
    IN  [kind |-> "dataframe",
         columns |-> [i \in DOMAIN shown |->
                        [name |-> shown[i],
                         config |-> IF shown[i] \in DOMAIN column_config
                                    THEN Some(column_config[shown[i]]) ELSE None,
                         values |-> GetColumn(data, shown[i])]]]

DownloadButton(data) ==
    [kind |-> "download_button", label |-> "Exportar user/username como texto",
     data |-> data, file_name |-> "usernames.txt", mime |-> "text/plain"]

-----------------------------------------------------------------------------
(* The functions of the program: each gives what the call returns (ret),    *)
(* whether it raised, and the elements it emitted (out).                    *)

\* The check stopping at the first missing column.
validate_columns_first_only(t, required_columns) ==
    LET missing == SelectSeq(required_columns, LAMBDA col : col \notin Columns(t))
    IN  IF missing # <<>>
        THEN [ret |-> FALSE, raised |-> FALSE, out |-> <<MissingError(SubSeq(missing, 1, 1))>>]
        ELSE [ret |-> TRUE, raised |-> FALSE, out |-> <<>>]

validate_columns(t, required_columns) ==
    LET missing == SelectSeq(required_columns, LAMBDA col : col \notin Columns(t))
    IN  IF missing # <<>>
        THEN [ret |-> FALSE, raised |-> FALSE, out |-> <<MissingError(missing)>>]
        ELSE [ret |-> TRUE, raised |-> FALSE, out |-> <<>>]

\* The renderer without column_order: the columns appear as the data has them.
display_data_no_order(t, required_columns) ==
    IF \E i \in DOMAIN required_columns : required_columns[i] \notin Columns(t)
    THEN [ret |-> FALSE, raised |-> TRUE, out |-> <<Header>>]
    ELSE [ret |-> TRUE, raised |-> FALSE,
          out |-> <<Header,
                    Dataframe(Project(t, required_columns),
                              required_columns, get_column_config)>>]

display_data(t, required_columns) ==
    IF \E i \in DOMAIN required_columns : required_columns[i] \notin Columns(t)
    THEN [ret |-> FALSE, raised |-> TRUE, out |-> <<Header>>]
    ELSE [ret |-> TRUE, raised |-> FALSE,
          out |-> <<Header,
                    Dataframe(Project(t, required_columns),
                              get_column_order, get_column_config)>>]

\* The exporter treating an empty list of usernames as an error.
export_usernames_empty_is_error(t) ==
    IF "user/username" \in Columns(t) /\ dropna(GetColumn(t, "user/username")) # <<>>
    THEN LET usernames == dropna(GetColumn(t, "user/username"))
             instagram_urls == [i \in DOMAIN usernames |-> BaseUrl \o usernames[i].val]
             urls_text == join(instagram_urls)
         IN  [ret |-> TRUE, raised |-> FALSE, out |-> <<DownloadButton(urls_text)>>]
    ELSE [ret |-> FALSE, raised |-> FALSE, out |-> <<NotFoundError>>]

export_usernames(t) ==
    IF "user/username" \in Columns(t)
    THEN LET usernames == dropna(GetColumn(t, "user/username"))
             instagram_urls == [i \in DOMAIN usernames |-> BaseUrl \o usernames[i].val]
             urls_text == join(instagram_urls)
         IN  [ret |-> TRUE, raised |-> FALSE, out |-> <<DownloadButton(urls_text)>>]
    ELSE [ret |-> FALSE, raised |-> FALSE, out |-> <<NotFoundError>>]

-----------------------------------------------------------------------------
(* Inputs: tables handed to the functions directly, and uploaded files.     *)

ExtraColumn == "user/profile_pic_url"

\* Two orders in which a spreadsheet may hold its columns.
SheetOrderA ==
    << "created_at", ExtraColumn, "text", "user/username", "user_profile_url",
       "comment_like_count", "user/is_verified" >>
SheetOrderB ==
    << "user/is_verified", "user/username", "comment_like_count", "user_profile_url",
       "text", ExtraColumn, "created_at" >>
SheetOrders == {SheetOrderA, SheetOrderB}
ColumnNames == {SheetOrderA[i] : i \in DOMAIN SheetOrderA}

\* The columns of names, in the given order, with the given values in the
\* user/username column and a filler in every other cell.
MkColumns(order, names, usernames, filler) ==
    LET cols == SelectSeq(order, LAMBDA c : c \in names)
    IN  [i \in DOMAIN cols |->
            [name |-> cols[i],
             values |-> IF cols[i] = "user/username" THEN usernames
                        ELSE [j \in DOMAIN usernames |-> filler]]]

Tables ==
    {MkColumns(order, names, usernames, Str(<<"x">>)) :
        order \in SheetOrders, names \in SUBSET ColumnNames,
        usernames \in SeqsUpTo(Cells, MaxRows)}

\* An uploaded file: its name, whether it can be read as a spreadsheet, and
\* the sheet it holds (cells are texts, the empty text for an empty cell).
MkFile(name, readable, order, names, usernames) ==
    [name |-> name, readable |-> readable,
     sheet |-> MkColumns(order, names, usernames, <<"x">>)]

UploadedFiles ==
    << MkFile("a.xlsx", TRUE, SheetOrderA, ColumnNames, <<alice, empty, bob>>),
       MkFile("a.xlsx", TRUE, SheetOrderB, ColumnNames \ {ExtraColumn}, <<bob, bob>>),
       MkFile("b.xlsx", FALSE, SheetOrderA, {}, <<>>),
       MkFile("c.xlsx", TRUE, SheetOrderA, ColumnNames \ {"user/username"}, <<alice>>),
       MkFile("d.xlsx", TRUE, SheetOrderB, ColumnNames, <<>>),
       MkFile("e.xlsx", TRUE, SheetOrderB, ColumnNames \ {"created_at", "text"}, <<empty, bob>>),
       MkFile("f.xlsx", TRUE, SheetOrderA, ColumnNames \ {ExtraColumn}, <<empty, empty>>) >>

\* The handles st.file_uploader may return, and the file behind each.
Files == DOMAIN UploadedFiles
FileOf(handle) == UploadedFiles[handle]

-----------------------------------------------------------------------------
(* The loader *)

\* pd.read_excel(file): raises on a file that is no spreadsheet; otherwise the
\* sheet as a table, an empty cell read as a missing value.
read_excel(file) ==
    IF ~file.readable
    THEN [raised |-> TRUE, ret |-> None]
    ELSE [raised |-> FALSE,
          ret |-> Some([i \in DOMAIN file.sheet |->
                    [name |-> file.sheet[i].name,
                     values |-> [j \in DOMAIN file.sheet[i].values |->
                                   IF file.sheet[i].values[j] = empty THEN NaN
                                   ELSE Str(file.sheet[i].values[j])]]])]

\* The body of load_data: the table, or the error message and None.
load_data(file) ==
    LET r == read_excel(file)
    IN  IF r.raised
        THEN [ret |-> None, raised |-> FALSE, out |-> <<LoadError>>]
        ELSE [ret |-> r.ret, raised |-> FALSE, out |-> <<>>]

\* The key without the content: two files of one name share an entry.
cache_key_by_name(file) == file.name

\* @st.cache_data: the key under which a call of load_data is stored, the
\* identity of the uploaded file (its name and its content).
cache_key(file) == file

CacheHit(file) == \E e \in cache : e.key = cache_key(file)
CacheEntry(file) == CHOOSE e \in cache : e.key = cache_key(file)

-----------------------------------------------------------------------------
(* The script.  Streamlit runs main() from the top on every interaction;    *)
(* st.stop() ends the run.                                                  *)

NoResult == [ret |-> FALSE, raised |-> FALSE, out |-> <<>>]

Init ==
    /\ pc = "main"
    /\ uploaded_file = None
    /\ df = None
    /\ cache = {}
    /\ parse_calls = [f \in Files |-> 0]
    /\ output = <<>>
    /\ steps = <<>>
    /\ result = NoResult

\* An interaction (a file uploaded, replaced or removed, a click on the
\* download button) starts the next run, on an empty page.
Rerun ==
    /\ pc \in {"stopped", "done"}
    /\ \E f \in {None} \cup {Some(x) : x \in Files} : uploaded_file' = f
    /\ pc' = "main"
    /\ df' = None
    /\ output' = <<>>
    /\ steps' = <<>>
    /\ result' = NoResult
    /\ UNCHANGED <<cache, parse_calls>>

\* The idle state reported as an error.
CheckUpload_idle_error ==
    /\ pc = "main"
    /\ output' = IF uploaded_file = None
                 THEN <<FileUploader, [kind |-> "error", label |-> "Nenhum arquivo"]>>
                 ELSE <<FileUploader>>
    /\ steps' = Append(steps, "file_uploader")
    /\ pc' = IF uploaded_file = None THEN "stopped" ELSE "load_data"
    /\ UNCHANGED <<uploaded_file, df, cache, parse_calls, result>>

\* main, lines 106-112: the uploader, and st.stop() without a file.
CheckUpload ==
    /\ pc = "main"
    /\ output' = Append(output, FileUploader)
    /\ steps' = Append(steps, "file_uploader")
    /\ pc' = IF uploaded_file = None THEN "stopped" ELSE "load_data"
    /\ UNCHANGED <<uploaded_file, df, cache, parse_calls, result>>

\* main, lines 110 and 114-115, on a call the cache holds: the stored value is
\* returned and the stored elements are shown again; the body does not run.
LoadCached ==
    /\ pc = "load_data"
    /\ CacheHit(FileOf(uploaded_file[1]))
    /\ LET e == CacheEntry(FileOf(uploaded_file[1]))
       IN  /\ df' = e.ret
           /\ output' = output \o e.out
           /\ result' = [ret |-> e.ret # None, raised |-> FALSE, out |-> e.out,
                          from_cache |-> TRUE]
           /\ pc' = IF e.ret = None THEN "stopped" ELSE "validate_columns"
    /\ steps' = Append(steps, "load_data")
    /\ UNCHANGED <<uploaded_file, cache, parse_calls>>

\* The loader without the decorator's store: nothing is kept.
LoadFresh_no_store ==
    /\ pc = "load_data"
    /\ ~CacheHit(FileOf(uploaded_file[1]))
    /\ parse_calls[uploaded_file[1]] < MaxParse
    /\ LET file == FileOf(uploaded_file[1])
           r == load_data(file)
       IN  /\ df' = r.ret
           /\ output' = output \o r.out
           /\ result' = [ret |-> r.ret # None, raised |-> FALSE, out |-> r.out,
                          from_cache |-> FALSE]
           /\ parse_calls' = [parse_calls EXCEPT ![uploaded_file[1]] = @ + 1]
           /\ pc' = IF r.ret = None THEN "stopped" ELSE "validate_columns"
    /\ steps' = Append(steps, "load_data")
    /\ UNCHANGED <<uploaded_file, cache>>

\* main, lines 110 and 114-115, on a call the cache does not hold: the body
\* runs and what it returned and showed is stored.
LoadFresh ==
    /\ pc = "load_data"
    /\ ~CacheHit(FileOf(uploaded_file[1]))
    /\ parse_calls[uploaded_file[1]] < MaxParse
    /\ LET file == FileOf(uploaded_file[1])
           r == load_data(file)
       IN  /\ df' = r.ret
           /\ output' = output \o r.out
           /\ result' = [ret |-> r.ret # None, raised |-> FALSE, out |-> r.out,
                          from_cache |-> FALSE]
           /\ cache' = cache \cup {[key |-> cache_key(file), ret |-> r.ret, out |-> r.out]}
           /\ parse_calls' = [parse_calls EXCEPT ![uploaded_file[1]] = @ + 1]
           /\ pc' = IF r.ret = None THEN "stopped" ELSE "validate_columns"
    /\ steps' = Append(steps, "load_data")
    /\ UNCHANGED <<uploaded_file>>

\* The validation result ignored: no st.stop() on failure.
Validate_no_stop ==
    /\ pc = "validate_columns"
    /\ LET r == validate_columns(df[1], get_required_columns)
       IN  /\ result' = r
           /\ output' = output \o r.out
           /\ pc' = "display_data"
    /\ steps' = Append(steps, "validate_columns")
    /\ UNCHANGED <<uploaded_file, df, cache, parse_calls>>

\* main, lines 117-119.
Validate ==
    /\ pc = "validate_columns"
    /\ LET r == validate_columns(df[1], get_required_columns)
       IN  /\ result' = r
           /\ output' = output \o r.out
           /\ pc' = IF r.ret THEN "display_data" ELSE "stopped"
    /\ steps' = Append(steps, "validate_columns")
    /\ UNCHANGED <<uploaded_file, df, cache, parse_calls>>

\* main, line 121.  An exception would end the run.
Display ==
    /\ pc = "display_data"
    /\ LET r == display_data(df[1], get_required_columns)
       IN  /\ result' = r
           /\ output' = output \o r.out
           /\ pc' = IF r.raised THEN "stopped" ELSE "export_usernames"
    /\ steps' = Append(steps, "display_data")
    /\ UNCHANGED <<uploaded_file, df, cache, parse_calls>>

\* main, line 122.
Export ==
    /\ pc = "export_usernames"
    /\ LET r == export_usernames(df[1])
       IN  /\ result' = r
           /\ output' = output \o r.out
    /\ pc' = "done"
    /\ steps' = Append(steps, "export_usernames")
    /\ UNCHANGED <<uploaded_file, df, cache, parse_calls>>

Next == Rerun \/ CheckUpload \/ LoadCached \/ LoadFresh \/ Validate \/ Display \/ Export

Spec == Init /\ [][Next]_vars

-----------------------------------------------------------------------------
(* The functions called directly, on any table. *)

InitFn ==
    /\ pc = "call"
    /\ uploaded_file = None
    /\ \E t \in Tables : df = Some(t)
    /\ cache = {}
    /\ parse_calls = [f \in Files |-> 0]
    /\ output = <<>>
    /\ steps = <<>>
    /\ result = NoResult

Call(name, r) ==
    /\ pc = "call"
    /\ result' = r
    /\ output' = r.out
    /\ steps' = <<name>>
    /\ pc' = "returned"
    /\ UNCHANGED <<uploaded_file, df, cache, parse_calls>>

CallValidate == Call("validate_columns", validate_columns(df[1], get_required_columns))
CallDisplay == Call("display_data", display_data(df[1], get_required_columns))
CallExport == Call("export_usernames", export_usernames(df[1]))

NextFn == CallValidate \/ CallDisplay \/ CallExport

SpecFn == InitFn /\ [][NextFn]_vars

-----------------------------------------------------------------------------
(* Properties of the functions, under SpecFn. *)

Returned(name) == pc = "returned" /\ steps = <<name>>

IndexIn(seq, x) == CHOOSE i \in DOMAIN seq : seq[i] = x

Absent(t) ==
    {get_required_columns[i] : i \in DOMAIN get_required_columns} \ Columns(t)

\* C1: validate_columns fails exactly when a required column is absent; the
\* list it then reports holds each absent required name once, nothing else,
\* in the order of the required list; with every required name present it
\* returns True and shows no error, whatever else the table holds.
C1_ValidateReportsMissing ==
    Returned("validate_columns") =>
        LET t == df[1]
        IN  /\ result.ret = (Absent(t) = {})
            /\ Absent(t) = {} => output = <<>>
            /\ Absent(t) # {} =>
                 /\ Len(output) = 1
                 /\ output[1].kind = "error"
                 /\ LET m == output[1].missing
                    IN  /\ {m[i] : i \in DOMAIN m} = Absent(t)
                        /\ Len(m) = Cardinality(Absent(t))
                        /\ \A i, j \in DOMAIN m :
                             i < j => IndexIn(get_required_columns, m[i])
                                        < IndexIn(get_required_columns, m[j])

\* A table with an extra column that lacks two or more required ones, checked.
C1_Witness ==
    /\ Returned("validate_columns")
    /\ Cardinality(Absent(df[1])) >= 2
    /\ ExtraColumn \in Columns(df[1])
    /\ ~result.ret

\* C3: for a table with all required columns, display_data shows exactly the
\* six columns user_profile_url, user/username, user/is_verified,
\* comment_like_count, text, created_at, in that order, each with the values
\* the table holds for it, whatever the table's own order and extra columns.
C3_DisplayOrder ==
    (Returned("display_data") /\ Absent(df[1]) = {}) =>
        /\ ~result.raised
        /\ Len(output) = 2
        /\ output[2].kind = "dataframe"
        /\ LET shown == output[2].columns
           IN  /\ [i \in DOMAIN shown |-> shown[i].name] =
                    << "user_profile_url", "user/username", "user/is_verified",
                       "comment_like_count", "text", "created_at" >>
               /\ \A i \in DOMAIN shown :
                    shown[i].values = GetColumn(df[1], shown[i].name)

\* A valid table holding user/profile_pic_url too, with rows, rendered.
C3_Witness ==
    /\ Returned("display_data")
    /\ Absent(df[1]) = {}
    /\ ExtraColumn \in Columns(df[1])
    /\ Len(GetColumn(df[1], "user/username")) = MaxRows
    /\ Len(output) = 2

\* The payload for a column of values, row by row: the URL of each value that
\* is not null, a newline between two URLs.
RECURSIVE PayloadOf(_)
PayloadOf(values) ==
    IF values = <<>> THEN <<>>
    ELSE LET rest == PayloadOf(Tail(values))
             more == \E i \in DOMAIN Tail(values) : ~Tail(values)[i].isna
         IN  IF Head(values).isna THEN rest
             ELSE IF more THEN BaseUrl \o Head(values).val \o <<NL>> \o rest
             ELSE BaseUrl \o Head(values).val

ExportedPayload == output[1].data

\* C4: for a table with the user/username column, export_usernames offers the
\* newline-join of 'https://www.instagram.com/' + v over the non-null values v
\* of the column, in row order, values unchanged and duplicates kept; the
\* values alice, null, bob give the alice URL, a newline and the bob URL.
C4_ExportPayload ==
    (Returned("export_usernames") /\ "user/username" \in Columns(df[1])) =>
        LET values == GetColumn(df[1], "user/username")
        IN  /\ Len(output) = 1
            /\ output[1].kind = "download_button"
            /\ ExportedPayload = PayloadOf(values)
            /\ values = <<Str(alice), NaN, Str(bob)>> =>
                 ExportedPayload =
                    << "h", "t", "t", "p", "s", ":", "/", "/", "w", "w", "w", ".",
                       "i", "n", "s", "t", "a", "g", "r", "a", "m", ".", "c", "o", "m",
                       "/", "a", "l", "i", "c", "e", "\n",
                       "h", "t", "t", "p", "s", ":", "/", "/", "w", "w", "w", ".",
                       "i", "n", "s", "t", "a", "g", "r", "a", "m", ".", "c", "o", "m",
                       "/", "b", "o", "b" >>

\* The column alice, null, bob exported.
C4_Witness ==
    /\ Returned("export_usernames")
    /\ "user/username" \in Columns(df[1])
    /\ GetColumn(df[1], "user/username") = <<Str(alice), NaN, Str(bob)>>
    /\ output[1].kind = "download_button"

\* The lines of a text: its parts between newlines; the empty text has none.
RECURSIVE SplitAt(_, _)
SplitAt(s, cur) ==
    IF s = <<>> THEN <<cur>>
    ELSE IF Head(s) = NL THEN <<cur>> \o SplitAt(Tail(s), <<>>)
    ELSE SplitAt(Tail(s), Append(cur, Head(s)))

Lines(s) == IF s = <<>> THEN <<>> ELSE SplitAt(s, <<>>)

\* C5: export_usernames leaves out every missing value, null or empty: no line
\* of the payload is the bare 'https://www.instagram.com/', and the payload has
\* one line per row whose username is neither null nor the empty string.
C5_EmptyExcluded ==
    (Returned("export_usernames") /\ "user/username" \in Columns(df[1])) =>
        LET values == GetColumn(df[1], "user/username")
            lines == Lines(ExportedPayload)
        IN  /\ \A i \in DOMAIN lines : lines[i] # BaseUrl
            /\ Len(lines) =
                 Cardinality({j \in DOMAIN values :
                                ~values[j].isna /\ values[j].val # empty})

\* C8: for a table whose user/username column holds no non-null value (no
\* rows at all included), export_usernames offers usernames.txt with the empty
\* payload and shows no error.
C8_EmptyExport ==
    ( /\ Returned("export_usernames")
      /\ "user/username" \in Columns(df[1])
      /\ \A j \in DOMAIN GetColumn(df[1], "user/username") :
            GetColumn(df[1], "user/username")[j].isna ) =>
        /\ Len(output) = 1
        /\ output[1].kind = "download_button"
        /\ output[1].data = <<>>
        /\ output[1].file_name = "usernames.txt"
        /\ \A i \in DOMAIN output : output[i].kind # "error"

\* A column of nulls only, exported.
C8_Witness ==
    /\ Returned("export_usernames")
    /\ "user/username" \in Columns(df[1])
    /\ Len(GetColumn(df[1], "user/username")) >= 2
    /\ \A j \in DOMAIN GetColumn(df[1], "user/username") :
          GetColumn(df[1], "user/username")[j].isna
    /\ output[1].kind = "download_button"

-----------------------------------------------------------------------------
(* Properties of the script, under Spec. *)

Invoked(name) == \E i \in DOMAIN steps : steps[i] = name
Shows(kind) == \E i \in DOMAIN output : output[i].kind = kind

MainOrder ==
    <<"file_uploader", "load_data", "validate_columns", "display_data", "export_usernames">>

\* After a halt: nothing but the start of the next pass.
AfterHalt == pc = "stopped" => (pc' = "main" /\ output' = <<>> /\ steps' = <<>>)

\* C2: a pass invokes the upload check, the loader, the validator, the
\* renderer and the exporter in this order and stops at the first failure:
\* without a table the validator is not invoked, without every required
\* column the renderer and the exporter are not, and once the pass has
\* halted nothing happens but the start of the next pass.
C2_OrderAndShortCircuit ==
    /\ [](/\ Len(steps) <= Len(MainOrder)
          /\ steps = SubSeq(MainOrder, 1, Len(steps))
          /\ Invoked("validate_columns") => df # None
          /\ Invoked("display_data") => (df # None /\ Absent(df[1]) = {})
          /\ Invoked("export_usernames") => Invoked("display_data")
          /\ pc = "stopped" => (~Shows("dataframe") /\ ~Shows("download_button")))
    /\ [][AfterHalt]_vars

\* A pass halted by the validator.
C2_Witness ==
    /\ pc = "stopped"
    /\ steps = <<"file_uploader", "load_data", "validate_columns">>
    /\ df # None
    /\ Len(output) = 2
    /\ output[2].kind = "error"

\* C6: a pass without an uploaded file halts at the upload check, before the
\* loader, and shows no table, no download button and no error.
C6_Idle ==
    (uploaded_file = None /\ pc # "main") =>
        /\ pc = "stopped"
        /\ steps = <<"file_uploader">>
        /\ ~Shows("dataframe") /\ ~Shows("download_button") /\ ~Shows("error")

\* An idle pass after passes that loaded files.
C6_Witness ==
    /\ uploaded_file = None
    /\ pc = "stopped"
    /\ cache # {}
    /\ output = <<FileUploader>>

ValidFile(handle) ==
    /\ FileOf(handle).readable
    /\ \A i \in DOMAIN get_required_columns :
          get_required_columns[i] \in Columns(FileOf(handle).sheet)

\* What a pass shows for a valid file when nothing was loaded before.
FirstPassOutput(handle) ==
    LET t == read_excel(FileOf(handle)).ret[1]
    IN  <<FileUploader>> \o display_data(t, get_required_columns).out
                         \o export_usernames(t).out

\* After a finished pass: the next pass starts, on an empty page, with the
\* cache and the count of parses as they were.
AfterPass ==
    pc \in {"stopped", "done"} =>
        /\ pc' = "main"
        /\ output' = <<>> /\ steps' = <<>> /\ df' = None
        /\ cache' = cache /\ parse_calls' = parse_calls

\* C7: no failure is sticky.  Whatever passes came before, a pass with a
\* readable file that has the six required columns never halts and ends
\* showing the table and the download exactly as a first pass would; a
\* finished pass, halted or not, is followed only by the start of the next
\* pass, which parses nothing again and carries over nothing but the cache.
C7_NoStickyFailure ==
    /\ []((uploaded_file # None /\ ValidFile(uploaded_file[1])) =>
            /\ pc # "stopped"
            /\ pc = "done" =>
                 /\ output = FirstPassOutput(uploaded_file[1])
                 /\ Len(output) = 4
                 /\ output[3].kind = "dataframe"
                 /\ output[4].kind = "download_button")
    /\ [][AfterPass]_vars

\* A valid file rendered after a load failure and a schema failure.
C7_Witness ==
    /\ pc = "done"
    /\ ValidFile(uploaded_file[1])
    /\ \E e \in cache : e.ret = None
    /\ \E e \in cache : e.ret # None /\ Absent(e.ret[1]) # {}
    /\ Shows("dataframe") /\ Shows("download_button")

\* A load of a file that was parsed before parses nothing and returns the
\* table the parse gave.
LoadOfParsedFile ==
    (pc = "load_data" /\ parse_calls[uploaded_file[1]] > 0) =>
        /\ parse_calls' = parse_calls
        /\ df' = read_excel(FileOf(uploaded_file[1])).ret

\* C9: load_data is memoized by file: no file is parsed twice, an entry of
\* the cache holds what parsing its own file gives, the table a pass gets
\* for a file is the one its first load gave, and a call the cache holds
\* returns the stored table without parsing.
C9_Memoized ==
    /\ [](/\ \A h \in Files : parse_calls[h] <= 1
          /\ \A e \in cache :
                \E h \in Files : /\ e.key = cache_key(FileOf(h))
                                 /\ e.ret = read_excel(FileOf(h)).ret
                                 /\ parse_calls[h] = 1
          /\ (Invoked("load_data") /\ uploaded_file # None) =>
                df = read_excel(FileOf(uploaded_file[1])).ret)
    /\ [][LoadOfParsedFile]_vars

\* A table returned from the cache, with another file cached too.
C9_Witness ==
    /\ pc = "validate_columns"
    /\ result.from_cache
    /\ df # None
    /\ parse_calls[uploaded_file[1]] = 1
    /\ Cardinality(cache) >= 2

\* C10: in main the exporter always finds user/username: its 'column not
\* found' error is never shown, a finished pass that shows the table shows
\* the download too, and a pass shows at most one error.
C10_ExportErrorUnreachable ==
    /\ \A i \in DOMAIN output : output[i] # NotFoundError
    /\ Invoked("export_usernames") => "user/username" \in Columns(df[1])
    /\ (pc \in {"done", "stopped"} /\ Shows("dataframe")) => Shows("download_button")
    /\ Cardinality({i \in DOMAIN output : output[i].kind = "error"}) <= 1

\* A pass that rendered a table without the extra column and offered the download.
C10_Witness ==
    /\ pc = "done"
    /\ ExtraColumn \notin Columns(df[1])
    /\ Shows("dataframe")
    /\ output[Len(output)].kind = "download_button"

====
